---- MODULE Spec2Model ----
(***************************************************************************)
(* State-machine model of the serial ingestion backend (mediot/app.go):    *)
(* the App object (serialPort, isConnected, dataBuffer), its bound methods *)
(* ConnectToSerialPort, DisconnectFromSerialPort and ReadSensorData, and   *)
(* the text / binary decoders they call.                                   *)
(*                                                                         *)
(* app.go holds two historical variants of the same package: in the first  *)
(* parseTextFormat reads hexadecimal uint32 fields and parseBinaryFormat   *)
(* yields uint32 words, in the second they read decimal int32 fields and   *)
(* yield int32 words.  The variable `variant` fixes which one is built.    *)
(*                                                                         *)
(* Bytes are their numeric codes.  A channel value is a pair <<q, r>>      *)
(* denoting q * 65536 + r with 0 <= r < 65536, so that the whole uint32    *)
(* and int32 ranges are representable exactly.  A Sample is the triple of  *)
(* its channel values (the wall-clock timestamp is not modelled).          *)
(***************************************************************************)
EXTENDS Integers, Sequences, FiniteSets, TLC

VARIABLES
    variant,      \* "hex" | "dec": which variant of app.go is built
    isConnected,  \* App.isConnected
    serialPort,   \* App.serialPort: 0 is nil, otherwise the handle of an open port
    dataBuffer,   \* App.dataBuffer
    panicked,     \* the process died on a nil-pointer call
    openPorts,    \* handles opened by serial.Open and not yet closed
    result,       \* what the most recent call returned
    session,      \* number of successful connects so far
    nReads,       \* reads issued in the current session
    rx,           \* bytes ReadSensorData received in the current session
    polled,       \* samples ReadSensorData returned in the current session
    acc,          \* bytes the acquisition step received in the current session
    pc,           \* per in-flight ReadSensorData call: where it stands
    tmp,          \* per call: the bytes its Read put into tempBuffer
    returned,     \* per call: what it returned
    callOrder,    \* the calls in the order they were issued
    decoded,      \* the samples in the order they were decoded
    dpc,          \* the DisconnectFromSerialPort call in flight: where it stands
    input,        \* the bytes handed to a decoder
    fn,           \* the decoder that was applied to input
    output,       \* what it returned
    cpc,          \* per in-flight ConnectToSerialPort call: where it stands
    cport,        \* per call: the handle its serial.Open returned
    uiConnected,  \* the UI's isConnected state
    isTestMode,   \* the UI's isTestMode state
    uiPending,    \* backend calls of the UI whose promise has not resolved yet
    uiErrors,     \* the read errors the polling callback has caught and logged
    cbBuffer,     \* CircularBuffer.buffer
    cbHead,       \* CircularBuffer.head
    cbSize,       \* CircularBuffer.size
    cbPushed      \* the items pushed since the last clear, oldest first

concVars == <<pc, tmp, returned, callOrder, decoded>>

decVars == <<input, fn, output>>

connVars == <<cpc, cport>>

uiVars == <<uiConnected, isTestMode, uiPending, uiErrors>>

cbVars == <<cbBuffer, cbHead, cbSize, cbPushed>>

extVars == <<connVars, uiVars, cbVars>>

vars == <<variant, isConnected, serialPort, dataBuffer, panicked, openPorts,
          result, session, nReads, rx, polled, acc, pc, tmp,
          returned, callOrder, decoded, dpc, input, fn, output,
          cpc, cport, uiConnected, isTestMode, uiPending, uiErrors,
          cbBuffer, cbHead, cbSize, cbPushed>>

----------------------------------------------------------------------------
(* Bounds of the model *)

MaxSessions == 2
MaxReads == 2
NPolls == 2
NConnects == 2
Capacity == 3
MaxPushes == 5

----------------------------------------------------------------------------
(* Program constants *)

ReadBufSize == 100
BinaryRecordLen == 12
BufferCeiling == 50
W16 == 65536
COMMA == 44
LF == 10
CR == 13
CH_0 == 48
CH_1 == 49
CH_2 == 50
CH_3 == 51
CH_x == 120
CH_X == 88
CH_MINUS == 45
CH_PLUS == 43

Nil == 0

----------------------------------------------------------------------------
(* strings helpers *)

\* unicode.IsSpace restricted to single bytes, as strings.TrimSpace uses it
IsSpace(b) == b \in {9, 10, 11, 12, 13, 32}

RECURSIVE TrimLeft(_)
TrimLeft(s) ==
    IF s # <<>> /\ IsSpace(Head(s)) THEN TrimLeft(Tail(s)) ELSE s

RECURSIVE TrimRight(_)
TrimRight(s) ==
    IF s # <<>> /\ IsSpace(s[Len(s)]) THEN TrimRight(SubSeq(s, 1, Len(s) - 1)) ELSE s

TrimSpace(s) == TrimRight(TrimLeft(s))

Contains(s, b) == \E i \in 1..Len(s) : s[i] = b

\* index of the first byte of s that lies in set, or 0
IndexAny(s, set) ==
    IF \E i \in 1..Len(s) : s[i] \in set
    THEN CHOOSE i \in 1..Len(s) : s[i] \in set /\ \A j \in 1..(i - 1) : s[j] \notin set
    ELSE 0

RECURSIVE Split(_, _)
Split(s, sep) ==
    LET i == IndexAny(s, {sep})
    IN  IF i = 0 THEN <<s>>
        ELSE <<SubSeq(s, 1, i - 1)>> \o Split(SubSeq(s, i + 1, Len(s)), sep)

HasPrefix0x(s) == Len(s) >= 2 /\ s[1] = CH_0 /\ s[2] \in {CH_x, CH_X}

----------------------------------------------------------------------------
(* strconv *)

DigitVal(b, base) ==
    IF b \in 48..57 THEN b - 48
    ELSE IF base = 16 /\ b \in 97..102 THEN b - 87
    ELSE IF base = 16 /\ b \in 65..70 THEN b - 55
    ELSE -1

\* Accumulates the digits of s from position i on top of the value <<q, r>>;
\* fails on a byte that is no digit of the base and once the value passes 2^32 - 1.
RECURSIVE AccDigits(_, _, _, _, _)
AccDigits(s, base, i, q, r) ==
    IF i > Len(s) THEN [ok |-> TRUE, q |-> q, r |-> r]
    ELSE LET d == DigitVal(s[i], base)
             lo == r * base + d
             q2 == q * base + (lo \div W16)
         IN  IF d < 0 \/ q2 >= W16 THEN [ok |-> FALSE, q |-> 0, r |-> 0]
             ELSE AccDigits(s, base, i + 1, q2, lo % W16)

\* strconv.ParseUint(s, base, 32)
ParseUint32(s, base) ==
    IF s = <<>> THEN [ok |-> FALSE, q |-> 0, r |-> 0]
    ELSE AccDigits(s, base, 1, 0, 0)

\* strconv.ParseInt(s, 10, 32)
ParseInt32(s) ==
    LET signed == s # <<>> /\ s[1] \in {CH_PLUS, CH_MINUS}
        neg == s # <<>> /\ s[1] = CH_MINUS
        digits == IF signed THEN Tail(s) ELSE s
        un == ParseUint32(digits, 10)
        bad == [ok |-> FALSE, q |-> 0, r |-> 0]
    IN  IF ~un.ok THEN bad
        ELSE IF ~neg THEN (IF un.q >= 32768 THEN bad ELSE un)
        ELSE IF un.q > 32768 \/ (un.q = 32768 /\ un.r > 0) THEN bad
        ELSE IF un.r = 0 THEN [ok |-> TRUE, q |-> -un.q, r |-> 0]
        ELSE [ok |-> TRUE, q |-> -un.q - 1, r |-> W16 - un.r]

----------------------------------------------------------------------------
(* decoders *)

parseHexUint32(hexStr) ==
    ParseUint32(IF HasPrefix0x(hexStr) THEN SubSeq(hexStr, 3, Len(hexStr)) ELSE hexStr, 16)

parseInt32(numStr) == ParseInt32(numStr)

Failure(e) == [ok |-> FALSE, err |-> e, samples |-> <<>>]
Success(smp) == [ok |-> TRUE, err |-> "", samples |-> <<smp>>]
Returns(smps) == [ok |-> TRUE, err |-> "", samples |-> smps]

parseField(v, field) ==
    IF v = "hex" THEN parseHexUint32(TrimSpace(field)) ELSE parseInt32(TrimSpace(field))

\* parseTextFormat without the field-count check: a missing field reads as 0
parseTextFormatFillsMissing(v, dataStr) ==
    LET parts == Split(dataStr, COMMA) \o << <<CH_0>>, <<CH_0>> >>
        v1 == parseField(v, parts[1])
        v2 == parseField(v, parts[2])
        v3 == parseField(v, parts[3])
    IN  IF ~v1.ok \/ ~v2.ok \/ ~v3.ok THEN Failure("parse")
        ELSE Success(<< <<v1.q, v1.r>>, <<v2.q, v2.r>>, <<v3.q, v3.r>> >>)

\* parseTextFormat with a per-channel fallback: a field that fails reads as 0
parseTextFormatZeroesBadField(v, dataStr) ==
    LET parts == Split(dataStr, COMMA)
    IN  IF Len(parts) < 3 THEN Failure("fields")
        ELSE LET v1 == parseField(v, parts[1])
                 v2 == parseField(v, parts[2])
                 v3 == parseField(v, parts[3])
             IN  Success(<< <<v1.q, v1.r>>, <<v2.q, v2.r>>, <<v3.q, v3.r>> >>)

parseTextFormat(v, dataStr) ==
    LET parts == Split(dataStr, COMMA)
    IN  IF Len(parts) < 3 THEN Failure("fields")
        ELSE LET v1 == parseField(v, parts[1])
                 v2 == parseField(v, parts[2])
                 v3 == parseField(v, parts[3])
             IN  IF ~v1.ok \/ ~v2.ok \/ ~v3.ok THEN Failure("parse")
                 ELSE Success(<< <<v1.q, v1.r>>, <<v2.q, v2.r>>, <<v3.q, v3.r>> >>)

\* one little-endian 32-bit word starting at data[i]
Word(v, data, i) ==
    LET r == data[i] + 256 * data[i + 1]
        q == data[i + 2] + 256 * data[i + 3]
    IN  IF v = "dec" /\ q >= 32768 THEN <<q - W16, r>> ELSE <<q, r>>

parseBinaryFormat(v, data) ==
    IF Len(data) < BinaryRecordLen THEN Failure("insufficient")
    ELSE Success(<<Word(v, data, 1), Word(v, data, 5), Word(v, data, 9)>>)

----------------------------------------------------------------------------
(* frame reassembly over dataBuffer *)

\* One call of tryParseTextFormat on buffer buf: the buffer it leaves and
\* what it returns.
tryParseTextFormatNoFlush(v, buf) ==
    LET endIdx == IndexAny(buf, {LF, CR})
    IN  IF endIdx = 0
        THEN [buf |-> buf, ret |-> Failure("waiting")]
        ELSE [buf |-> SubSeq(buf, endIdx + 1, Len(buf)),
              ret |-> parseTextFormat(v, TrimSpace(SubSeq(buf, 1, endIdx - 1)))]

\* tryParseTextFormat dropping what follows the line it took
tryParseTextFormatDropsTail(v, buf) ==
    LET endIdx == IndexAny(buf, {LF, CR})
    IN  IF endIdx = 0 /\ Len(buf) < BufferCeiling
        THEN [buf |-> buf, ret |-> Failure("waiting")]
        ELSE IF endIdx # 0
        THEN [buf |-> <<>>,
              ret |-> parseTextFormat(v, TrimSpace(SubSeq(buf, 1, endIdx - 1)))]
        ELSE [buf |-> <<>>, ret |-> parseTextFormat(v, TrimSpace(buf))]

tryParseTextFormat(v, buf) ==
    LET endIdx == IndexAny(buf, {LF, CR})
    IN  IF endIdx = 0 /\ Len(buf) < BufferCeiling
        THEN [buf |-> buf, ret |-> Failure("waiting")]
        ELSE IF endIdx # 0
        THEN [buf |-> SubSeq(buf, endIdx + 1, Len(buf)),
              ret |-> parseTextFormat(v, TrimSpace(SubSeq(buf, 1, endIdx - 1)))]
        ELSE [buf |-> <<>>, ret |-> parseTextFormat(v, TrimSpace(buf))]

\* The reassembler run to completion over buf: tryParseTextFormat is applied
\* until it reports that it waits for more data.
RECURSIVE Reassemble(_, _)
Reassemble(v, buf) ==
    LET one == tryParseTextFormat(v, buf)
    IN  IF one.ret.err = "waiting" THEN [buf |-> buf, samples |-> <<>>]
        ELSE LET more == Reassemble(v, one.buf)
             IN  [buf |-> more.buf, samples |-> one.ret.samples \o more.samples]

----------------------------------------------------------------------------
(* what the device can deliver to one Read call *)

Rec123 == <<CH_1, COMMA, CH_2, COMMA, CH_3, LF>>
Rec12 == <<CH_1, COMMA, CH_2>>
Rec3 == <<COMMA, CH_3, LF>>
Junk30 == [i \in 1..30 |-> CH_x]
Bin123 == <<1, 0, 0, 0, 2, 0, 0, 0, 3, 0, 0, 0>>
Full100 == [i \in 1..ReadBufSize |-> IF i = 2 THEN COMMA ELSE CH_x]

Chunks == {Rec123, Rec12, Rec3, Junk30, <<LF>>, Bin123, Full100}

----------------------------------------------------------------------------
(* the App *)

Polls == 1..NPolls

Conns == 1..NConnects

\* a slot of the CircularBuffer's array that was never written
Unset == 0

NoCall == [op |-> "none", ok |-> TRUE, err |-> "", rd |-> "none", samples |-> <<>>]

Returned(o, r, how) ==
    [op |-> o, ok |-> r.ok, err |-> r.err, rd |-> how, samples |-> r.samples]

\* NewApp
InitApp ==
    /\ variant \in {"hex", "dec"}
    /\ isConnected = FALSE
    /\ serialPort = Nil
    /\ dataBuffer = <<>>
    /\ panicked = FALSE
    /\ openPorts = {}
    /\ result = NoCall
    /\ session = 0
    /\ nReads = 0
    /\ rx = <<>>
    /\ polled = <<>>
    /\ acc = <<>>
    /\ pc = [p \in Polls |-> "idle"]
    /\ tmp = [p \in Polls |-> <<>>]
    /\ returned = [p \in Polls |-> Failure("pending")]
    /\ callOrder = <<>>
    /\ decoded = <<>>
    /\ dpc = "idle"
    /\ cpc = [c \in Conns |-> "idle"]
    /\ cport = [c \in Conns |-> Nil]
    /\ uiConnected = FALSE
    /\ isTestMode = FALSE
    /\ uiPending = <<>>
    /\ uiErrors = {}
    /\ cbBuffer = [i \in 0..(Capacity - 1) |-> Unset]
    /\ cbHead = 0
    /\ cbSize = 0
    /\ cbPushed = <<>>

Init ==
    /\ InitApp
    /\ input = <<>>
    /\ fn = "none"
    /\ output = Failure("pending")

\* ConnectToSerialPort, the already-connected guard
ConnectRejectedReopens ==
    /\ isConnected
    /\ session < MaxSessions
    /\ serialPort' = session + 1
    /\ dataBuffer' = <<>>
    /\ openPorts' = openPorts \cup {session + 1}
    /\ session' = session + 1
    /\ result' = Returned("connect", Returns(<<>>), "none")
    /\ UNCHANGED <<isConnected, nReads, rx, polled, acc>>

ConnectRejected ==
    /\ isConnected
    /\ result' = Returned("connect", Failure("already"), "none")
    /\ UNCHANGED <<isConnected, serialPort, dataBuffer, openPorts,
                   session, nReads, rx, polled, acc>>

\* ConnectToSerialPort, serial.Open failed
ConnectOpenFailedKeepsFlag ==
    /\ ~isConnected
    /\ isConnected' = TRUE
    /\ result' = Returned("connect", Failure("open"), "none")
    /\ UNCHANGED <<serialPort, dataBuffer, openPorts,
                   session, nReads, rx, polled, acc>>

ConnectOpenFailed ==
    /\ ~isConnected
    /\ result' = Returned("connect", Failure("open"), "none")
    /\ UNCHANGED <<isConnected, serialPort, dataBuffer, openPorts,
                   session, nReads, rx, polled, acc>>

\* ConnectToSerialPort, serial.Open succeeded: a new session starts
ConnectOpened ==
    /\ ~isConnected
    /\ session < MaxSessions
    /\ serialPort' = session + 1
    /\ isConnected' = TRUE
    /\ dataBuffer' = <<>>
    /\ openPorts' = openPorts \cup {session + 1}
    /\ session' = session + 1
    /\ nReads' = 0
    /\ rx' = <<>>
    /\ polled' = <<>>
    /\ acc' = <<>>
    /\ result' = Returned("connect", Returns(<<>>), "none")

\* the body of ConnectToSerialPort
ConnectCall(openOK) ==
    /\ ~panicked
    /\ \/ ConnectRejected
       \/ ~openOK /\ ConnectOpenFailed
       \/ openOK /\ ConnectOpened
    /\ UNCHANGED <<variant, panicked>>

ConnectToSerialPort(openOK) ==
    /\ ConnectCall(openOK)
    /\ UNCHANGED <<concVars, dpc, decVars, extVars>>

\* DisconnectFromSerialPort, the no-active-connection guard
DisconnectRejectedClosesNil ==
    /\ ~isConnected \/ serialPort = Nil
    /\ panicked' = TRUE
    /\ result' = Returned("disconnect", Failure("panic"), "none")
    /\ UNCHANGED <<isConnected, serialPort, dataBuffer, openPorts>>

DisconnectRejected ==
    /\ ~isConnected \/ serialPort = Nil
    /\ result' = Returned("disconnect", Failure("noconn"), "none")
    /\ UNCHANGED <<isConnected, serialPort, dataBuffer, openPorts, panicked>>

\* DisconnectFromSerialPort, serialPort.Close failed
DisconnectCloseFailedClearsState ==
    /\ isConnected /\ serialPort # Nil
    /\ serialPort' = Nil
    /\ isConnected' = FALSE
    /\ dataBuffer' = <<>>
    /\ result' = Returned("disconnect", Failure("close"), "none")
    /\ UNCHANGED <<openPorts, panicked>>

DisconnectCloseFailed ==
    /\ isConnected /\ serialPort # Nil
    /\ result' = Returned("disconnect", Failure("close"), "none")
    /\ UNCHANGED <<isConnected, serialPort, dataBuffer, openPorts, panicked>>

\* DisconnectFromSerialPort, serialPort.Close succeeded
DisconnectClosedKeepsBuffer ==
    /\ isConnected /\ serialPort # Nil
    /\ openPorts' = openPorts \ {serialPort}
    /\ serialPort' = Nil
    /\ isConnected' = FALSE
    /\ result' = Returned("disconnect", Returns(<<>>), "none")
    /\ UNCHANGED <<dataBuffer, panicked>>

DisconnectClosedKeepsHandle ==
    /\ isConnected /\ serialPort # Nil
    /\ openPorts' = openPorts \ {serialPort}
    /\ isConnected' = FALSE
    /\ dataBuffer' = <<>>
    /\ result' = Returned("disconnect", Returns(<<>>), "none")
    /\ UNCHANGED <<serialPort, panicked>>

DisconnectClosed ==
    /\ isConnected /\ serialPort # Nil
    /\ openPorts' = openPorts \ {serialPort}
    /\ serialPort' = Nil
    /\ isConnected' = FALSE
    /\ dataBuffer' = <<>>
    /\ result' = Returned("disconnect", Returns(<<>>), "none")
    /\ UNCHANGED panicked

\* the body of DisconnectFromSerialPort
DisconnectCall(closeOK) ==
    /\ ~panicked
    /\ \/ DisconnectRejected
       \/ ~closeOK /\ DisconnectCloseFailed
       \/ closeOK /\ DisconnectClosed
    /\ UNCHANGED <<variant, session, nReads, rx, polled, acc>>

DisconnectFromSerialPort(closeOK) ==
    /\ DisconnectCall(closeOK)
    /\ UNCHANGED <<concVars, dpc, decVars, extVars>>

\* DecodeRead taking the last 12 bytes of the read for the binary record
DecodeReadLastTwelve(v, chunk) ==
    IF Contains(chunk, COMMA) /\ Len(chunk) < ReadBufSize
    THEN parseTextFormat(v, TrimSpace(chunk))
    ELSE IF Len(chunk) >= BinaryRecordLen
    THEN parseBinaryFormat(v, SubSeq(chunk, Len(chunk) - BinaryRecordLen + 1, Len(chunk)))
    ELSE Failure("insufficient")

\* ReadSensorData after a successful Read of n = Len(chunk) > 0 bytes:
\* the decoding of tempBuffer[:n]
DecodeRead(v, chunk) ==
    IF Contains(chunk, COMMA) /\ Len(chunk) < ReadBufSize
    THEN parseTextFormat(v, TrimSpace(chunk))
    ELSE IF Len(chunk) >= BinaryRecordLen
    THEN parseBinaryFormat(v, SubSeq(chunk, 1, BinaryRecordLen))
    ELSE Failure("insufficient")

\* ReadSensorData, the not-connected guard
ReadNotConnected ==
    /\ ~isConnected \/ serialPort = Nil
    /\ result' = Returned("read", Failure("notconnected"), "none")
    /\ UNCHANGED <<isConnected, serialPort, dataBuffer, nReads, rx, polled>>

\* ReadSensorData, serialPort.Read returned an error (a timeout or another one)
ReadFailedLosesHandle(kind) ==
    /\ isConnected /\ serialPort # Nil
    /\ serialPort' = IF kind = "timeout" THEN serialPort ELSE Nil
    /\ result' = Returned("read", Failure(kind), kind)
    /\ UNCHANGED <<isConnected, dataBuffer, nReads, rx, polled>>

ReadFailedDropsConnection(kind) ==
    /\ isConnected /\ serialPort # Nil
    /\ isConnected' = (kind = "timeout")
    /\ result' = Returned("read", Failure(kind), kind)
    /\ UNCHANGED <<serialPort, dataBuffer, nReads, rx, polled>>

ReadFailed(kind) ==
    /\ isConnected /\ serialPort # Nil
    /\ result' = Returned("read", Failure(kind), kind)
    /\ UNCHANGED <<isConnected, serialPort, dataBuffer, nReads, rx, polled>>

\* ReadSensorData, serialPort.Read returned n = 0 and no error
ReadNoData ==
    /\ isConnected /\ serialPort # Nil
    /\ result' = Returned("read", Failure("nodata"), "zero")
    /\ UNCHANGED <<isConnected, serialPort, dataBuffer, nReads, rx, polled>>

\* ReadSensorData, serialPort.Read returned the bytes of chunk
ReadDataKeepsResidue(chunk) ==
    /\ isConnected /\ serialPort # Nil
    /\ nReads < MaxReads
    /\ LET ret == DecodeRead(variant, rx \o chunk)
       IN  /\ result' = Returned("read", ret, "data")
           /\ polled' = polled \o ret.samples
    /\ rx' = rx \o chunk
    /\ nReads' = nReads + 1
    /\ UNCHANGED <<isConnected, serialPort, dataBuffer>>

ReadData(chunk) ==
    /\ isConnected /\ serialPort # Nil
    /\ nReads < MaxReads
    /\ LET ret == DecodeRead(variant, chunk)
       IN  /\ result' = Returned("read", ret, "data")
           /\ polled' = polled \o ret.samples
    /\ rx' = rx \o chunk
    /\ nReads' = nReads + 1
    /\ UNCHANGED <<isConnected, serialPort, dataBuffer>>

ReadSensorData ==
    /\ ~panicked
    /\ \/ ReadNotConnected
       \/ \E kind \in {"timeout", "io"} : ReadFailed(kind)
       \/ ReadNoData
       \/ \E chunk \in Chunks : ReadData(chunk)
    /\ UNCHANGED <<variant, panicked, openPorts, session, acc>>
    /\ UNCHANGED <<concVars, dpc, decVars, extVars>>

\* One iteration of the acquisition loop that received the bytes of chunk:
\* they are appended to dataBuffer and the reassembler runs over it.
AcquisitionStep(chunk) ==
    /\ ~panicked
    /\ isConnected /\ serialPort # Nil
    /\ nReads < MaxReads
    /\ LET r == Reassemble(variant, dataBuffer \o chunk)
       IN  /\ dataBuffer' = r.buf
           /\ result' = Returned("acquire", Returns(r.samples), "data")
    /\ acc' = acc \o chunk
    /\ nReads' = nReads + 1
    /\ UNCHANGED <<variant, isConnected, serialPort, panicked, openPorts,
                   session, rx, polled>>
    /\ UNCHANGED <<concVars, dpc, decVars, extVars>>

Next ==
    \/ \E openOK \in BOOLEAN : ConnectToSerialPort(openOK)
    \/ \E closeOK \in BOOLEAN : DisconnectFromSerialPort(closeOK)
    \/ ReadSensorData
    \/ \E chunk \in Chunks : AcquisitionStep(chunk)

Spec == Init /\ [][Next]_vars

----------------------------------------------------------------------------
(* ReadSensorData calls in flight at the same time.  The UI timer issues a  *)
(* call every period without waiting for the previous one, and the binding *)
(* runs each call on a goroutine of its own; ReadSensorData takes no lock, *)
(* so the steps of two calls interleave.                                   *)

seqVars == <<variant, isConnected, serialPort, dataBuffer, openPorts,
             result, session, nReads, rx, polled, acc>>

\* the timer callback issues call p
PollCall(p) ==
    /\ ~panicked
    /\ pc[p] = "idle"
    /\ pc' = [pc EXCEPT ![p] = "check"]
    /\ callOrder' = Append(callOrder, p)
    /\ UNCHANGED <<seqVars, dpc, decVars, extVars, panicked, tmp, returned, decoded>>

\* ReadSensorData, the not-connected guard
PollCheck(p) ==
    /\ ~panicked
    /\ pc[p] = "check"
    /\ IF ~isConnected \/ serialPort = Nil
       THEN /\ pc' = [pc EXCEPT ![p] = "done"]
            /\ returned' = [returned EXCEPT ![p] = Failure("notconnected")]
       ELSE /\ pc' = [pc EXCEPT ![p] = "read"]
            /\ UNCHANGED returned
    /\ UNCHANGED <<seqVars, dpc, decVars, extVars, panicked, tmp, callOrder, decoded>>

\* ReadSensorData, SetReadTimeout and Read on a.serialPort
PollRead(p, chunk) ==
    /\ ~panicked
    /\ pc[p] = "read"
    /\ IF serialPort = Nil
       THEN /\ panicked' = TRUE
            /\ UNCHANGED <<pc, tmp, returned>>
       ELSE IF chunk = <<>>
       THEN /\ pc' = [pc EXCEPT ![p] = "done"]
            /\ returned' = [returned EXCEPT ![p] = Failure("nodata")]
            /\ UNCHANGED <<panicked, tmp>>
       ELSE /\ pc' = [pc EXCEPT ![p] = "decode"]
            /\ tmp' = [tmp EXCEPT ![p] = chunk]
            /\ UNCHANGED <<panicked, returned>>
    /\ UNCHANGED <<seqVars, dpc, decVars, extVars, callOrder, decoded>>

\* ReadSensorData, the decoding of tempBuffer[:n] and the return
PollDecode(p) ==
    /\ ~panicked
    /\ pc[p] = "decode"
    /\ LET r == DecodeRead(variant, tmp[p])
       IN  /\ returned' = [returned EXCEPT ![p] = r]
           /\ decoded' = decoded \o r.samples
    /\ pc' = [pc EXCEPT ![p] = "done"]
    /\ UNCHANGED <<seqVars, dpc, decVars, extVars, panicked, tmp, callOrder>>

NextConc ==
    \/ \E openOK \in BOOLEAN : ConnectToSerialPort(openOK)
    \/ \E p \in Polls : PollCall(p)
    \/ \E p \in Polls : PollCheck(p)
    \/ \E p \in Polls, chunk \in Chunks \cup {<<>>} : PollRead(p, chunk)
    \/ \E p \in Polls : PollDecode(p)

SpecConc == Init /\ [][NextConc]_vars

----------------------------------------------------------------------------
(* ReadSensorData and DisconnectFromSerialPort in flight at the same time. *)
(* Each bound method runs on a goroutine of its own and none takes a lock, *)
(* so a disconnect requested while polls are running interleaves with     *)
(* them statement by statement.  a.serialPort is loaded again for every   *)
(* method call made on it; a call on the nil interface value panics.      *)

appVars == <<variant, session, nReads, rx, polled, acc>>

\* ReadSensorData: a.serialPort.SetReadTimeout(100 * time.Millisecond)
RaceSetReadTimeout(p) ==
    /\ ~panicked
    /\ pc[p] = "read"
    /\ IF serialPort = Nil
       THEN panicked' = TRUE /\ UNCHANGED pc
       ELSE pc' = [pc EXCEPT ![p] = "call"] /\ UNCHANGED panicked
    /\ UNCHANGED <<seqVars, dpc, decVars, extVars, tmp, returned, callOrder, decoded>>

\* ReadSensorData: a.serialPort.Read(tempBuffer) is entered
RaceEnterRead(p) ==
    /\ ~panicked
    /\ pc[p] = "call"
    /\ IF serialPort = Nil
       THEN panicked' = TRUE /\ UNCHANGED pc
       ELSE pc' = [pc EXCEPT ![p] = "inRead"] /\ UNCHANGED panicked
    /\ UNCHANGED <<seqVars, dpc, decVars, extVars, tmp, returned, callOrder, decoded>>

\* ReadSensorData: Read returns, with the bytes of chunk or with none
RaceExitRead(p, chunk) ==
    /\ ~panicked
    /\ pc[p] = "inRead"
    /\ IF chunk = <<>>
       THEN /\ pc' = [pc EXCEPT ![p] = "done"]
            /\ returned' = [returned EXCEPT ![p] = Failure("nodata")]
            /\ UNCHANGED tmp
       ELSE /\ pc' = [pc EXCEPT ![p] = "decode"]
            /\ tmp' = [tmp EXCEPT ![p] = chunk]
            /\ UNCHANGED returned
    /\ UNCHANGED <<seqVars, dpc, decVars, extVars, panicked, callOrder, decoded>>

\* the UI issues DisconnectFromSerialPort
RaceDisconnectCall ==
    /\ ~panicked
    /\ dpc \in {"idle", "done"}
    /\ dpc' = "check"
    /\ UNCHANGED <<seqVars, decVars, extVars, concVars, panicked>>

\* DisconnectFromSerialPort, the no-connection guard
RaceDisconnectCheck ==
    /\ ~panicked
    /\ dpc = "check"
    /\ IF ~isConnected \/ serialPort = Nil
       THEN DisconnectRejected /\ dpc' = "done"
       ELSE /\ dpc' = "close"
            /\ UNCHANGED <<isConnected, serialPort, dataBuffer, openPorts, panicked, result>>
    /\ UNCHANGED <<appVars, decVars, extVars, concVars>>

\* DisconnectFromSerialPort: a.serialPort.Close() is entered
RaceEnterClose ==
    /\ ~panicked
    /\ dpc = "close"
    /\ dpc' = "inClose"
    /\ UNCHANGED <<seqVars, decVars, extVars, concVars, panicked>>

\* DisconnectFromSerialPort: Close returns and the call runs to its end
RaceExitClose(closeOK) ==
    /\ ~panicked
    /\ dpc = "inClose"
    /\ IF closeOK THEN DisconnectClosed ELSE DisconnectCloseFailed
    /\ dpc' = "done"
    /\ UNCHANGED <<appVars, decVars, extVars, concVars>>

RaceChunks == {<<>>, Rec123}

NextRace ==
    \/ \E openOK \in BOOLEAN : ConnectToSerialPort(openOK)
    \/ \E p \in Polls : PollCall(p)
    \/ \E p \in Polls : PollCheck(p)
    \/ \E p \in Polls : RaceSetReadTimeout(p)
    \/ \E p \in Polls : RaceEnterRead(p)
    \/ \E p \in Polls, chunk \in RaceChunks : RaceExitRead(p, chunk)
    \/ \E p \in Polls : PollDecode(p)
    \/ RaceDisconnectCall
    \/ RaceDisconnectCheck
    \/ RaceEnterClose
    \/ \E closeOK \in BOOLEAN : RaceExitClose(closeOK)

SpecRace == Init /\ [][NextRace]_vars

----------------------------------------------------------------------------
(* The encodings of a triple of channel values, as the device emits them,   *)
(* and the decoders applied to one input on their own.                     *)

HexDigit(d) == IF d < 10 THEN 48 + d ELSE 87 + d

Hex4(n) ==
    <<HexDigit(n \div 4096), HexDigit((n \div 256) % 16),
      HexDigit((n \div 16) % 16), HexDigit(n % 16)>>

RECURSIVE StripZeros(_)
StripZeros(s) == IF Len(s) > 1 /\ Head(s) = CH_0 THEN StripZeros(Tail(s)) ELSE s

\* the 32-bit two's-complement pattern of val, as 0x and its hex digits
EncodeHexField(val) == <<CH_0, CH_x>> \o StripZeros(Hex4(val[1] % W16) \o Hex4(val[2]))

\* |val| as a pair
Magnitude(val) ==
    IF val[1] >= 0 THEN val
    ELSE IF val[2] = 0 THEN <<-val[1], 0>>
    ELSE <<-val[1] - 1, W16 - val[2]>>

RECURSIVE DecDigits(_)
DecDigits(m) ==
    IF m[1] = 0 /\ m[2] < 10 THEN <<CH_0 + m[2]>>
    ELSE LET lo == (m[1] % 10) * W16 + m[2]
         IN  Append(DecDigits(<<m[1] \div 10, lo \div 10>>), CH_0 + (lo % 10))

\* val in base 10, with a minus sign when negative
EncodeDecField(val) ==
    (IF val[1] < 0 THEN <<CH_MINUS>> ELSE <<>>) \o DecDigits(Magnitude(val))

\* the four bytes of val, least significant first
EncodeLEWord(val) ==
    <<val[2] % 256, val[2] \div 256, (val[1] % W16) % 256, (val[1] % W16) \div 256>>

Encodings == {"hexcsv", "deccsv", "binary"}

Encode(e, t) ==
    CASE e = "hexcsv" ->
            EncodeHexField(t[1]) \o <<COMMA>> \o EncodeHexField(t[2]) \o <<COMMA>>
                \o EncodeHexField(t[3]) \o <<LF>>
      [] e = "deccsv" ->
            EncodeDecField(t[1]) \o <<COMMA>> \o EncodeDecField(t[2]) \o <<COMMA>>
                \o EncodeDecField(t[3]) \o <<LF>>
      [] e = "binary" -> EncodeLEWord(t[1]) \o EncodeLEWord(t[2]) \o EncodeLEWord(t[3])

MinInt32 == <<-32768, 0>>
MaxInt32 == <<32767, 65535>>

Triples ==
    { << <<0, 1>>, <<0, 2>>, <<0, 3>> >>,
      << <<0, 10>>, <<0, 20>>, <<0, 30>> >>,
      << <<-1, 65535>>, <<0, 0>>, MaxInt32 >>,
      << MinInt32, <<-1, 65531>>, <<1, 0>> >>,
      << <<0, COMMA>>, <<0, 2>>, <<0, 3>> >> }

EncodedRecords == {Encode(e, t) : e \in Encodings, t \in Triples}

TxtOneField == <<97, 98, 99>>  \* abc
TxtTwoHex == <<48, 120, 49, 44, 48, 120, 50>>  \* 0x1,0x2
TxtTwoEmpty == <<44>>  \* ,
TxtEmptyThird == <<45, 53, 44, 49, 48, 44>>  \* -5,10,
TxtBadSecond == <<49, 44, 122, 122, 44, 51>>  \* 1,zz,3
TxtEmptyFirst == <<44, 50, 44, 51>>  \* ,2,3
TxtBadFirst == <<113, 44, 50, 44, 51>>  \* q,2,3
TxtFourFields == <<49, 44, 50, 44, 51, 44, 52>>  \* 1,2,3,4
TxtHex16 == <<48, 120, 49, 48, 44, 48, 120, 50, 48, 44, 48, 120, 51, 48>>  \* 0x10,0x20,0x30
TxtRecordAndHead == <<49, 44, 50, 44, 51, 10, 52, 44, 53>>  \* 1,2,3\n4,5
TxtOverflowRecord == <<49, 44, 50, 44, 51, 44>> \o [i \in 1..BufferCeiling |-> CH_x]  \* 1,2,3, and 50 x
TxtMixed == <<48, 120, 49, 48, 44, 50, 48, 44, 51, 48>>  \* 0x10,20,30
TxtPadded == <<32, 55, 32, 44, 32, 56, 32, 44, 32, 57, 32, 13, 10>>  \*  7 , 8 , 9 \r\n
TxtTwoRecords == <<49, 44, 50, 44, 51, 10, 52, 44, 53, 44, 54, 10>>  \* 1,2,3\n4,5,6\n
TxtBlankLines == <<10, 10>>  \* \n\n
TxtBlankThenRecord == <<10, 49, 44, 50, 44, 51, 10>>  \* \n1,2,3\n
FldBarePrefix == <<48, 120>>  \* 0x
FldNineDigits == <<48, 120, 48, 48, 48, 48, 48, 48, 48, 48, 49>>  \* 0x000000001
FldNoPrefix == <<49, 48>>  \* 10
FldNoPrefixHex == <<102, 102>>  \* ff
FldUpper == <<48, 88, 49, 70>>  \* 0X1F
FldEight == <<48, 120, 70, 70, 70, 70, 70, 70, 70, 70>>  \* 0xFFFFFFFF
FldOverflow == <<48, 120, 49, 50, 51, 52, 53, 54, 55, 56, 57>>  \* 0x123456789
FldNotHex == <<48, 120, 103>>  \* 0xg
FldMinus == <<45, 53>>  \* -5
BinShort == <<1, 0, 0, 0, 2, 0, 0, 0, 3, 0, 0>>
BinLong == <<1, 0, 0, 0, 2, 0, 0, 0, 3, 0, 0, 0, 9, 9, 9>>
BinHigh == <<255, 255, 255, 255, 255, 255, 255, 255, 255, 255, 255, 255>>

MalformedRecords ==
    {TxtOneField, TxtTwoHex, TxtTwoEmpty, TxtEmptyThird,
     TxtBadSecond, TxtEmptyFirst, TxtBadFirst, TxtFourFields,
     TxtMixed, TxtPadded, TxtTwoRecords, TxtBlankLines,
     TxtBlankThenRecord, FldBarePrefix, FldNineDigits, FldNoPrefix,
     FldNoPrefixHex, FldUpper, FldEight, FldOverflow,
     FldNotHex, FldMinus, BinShort, BinLong,
     BinHigh,
     TxtHex16, Rec12, Bin123 \o Bin123,
     TxtRecordAndHead, TxtOverflowRecord, Junk30 \o Junk30}

Inputs == EncodedRecords \cup MalformedRecords

InitDec ==
    /\ InitApp
    /\ input \in Inputs
    /\ fn = "none"
    /\ output = Failure("pending")

\* the result of a field parser, in the shape of a decoder result
FieldResult(r) == IF r.ok THEN Success(<< <<r.q, r.r>> >>) ELSE Failure("parse")

Applied(f, r) ==
    /\ fn' = f
    /\ output' = r
    /\ UNCHANGED <<seqVars, panicked, concVars, dpc, input, extVars>>

\* ReadSensorData's decoding of a read that returned the bytes of input
ApplyDecodeRead ==
    /\ input # <<>> /\ Len(input) <= ReadBufSize
    /\ Applied("DecodeRead", DecodeRead(variant, input))

\* parseTextFormat, called as its callers do on the trimmed text
ApplyParseTextFormat == Applied("parseTextFormat", parseTextFormat(variant, TrimSpace(input)))

ApplyParseBinaryFormat == Applied("parseBinaryFormat", parseBinaryFormat(variant, input))

\* tryParseTextFormat with dataBuffer holding input
ApplyTryParseTextFormat ==
    /\ fn' = "tryParseTextFormat"
    /\ output' = tryParseTextFormat(variant, input).ret
    /\ dataBuffer' = tryParseTextFormat(variant, input).buf
    /\ UNCHANGED <<variant, isConnected, serialPort, openPorts, result, appVars,
                   panicked, concVars, dpc, input, extVars>>

ApplyParseHexUint32 ==
    /\ variant = "hex"
    /\ Applied("parseHexUint32", FieldResult(parseHexUint32(TrimSpace(input))))

ApplyParseInt32 ==
    /\ variant = "dec"
    /\ Applied("parseInt32", FieldResult(parseInt32(TrimSpace(input))))

NextDec ==
    \/ ApplyDecodeRead
    \/ ApplyParseTextFormat
    \/ ApplyParseBinaryFormat
    \/ ApplyTryParseTextFormat
    \/ ApplyParseHexUint32
    \/ ApplyParseInt32

SpecDec == InitDec /\ [][NextDec]_vars

----------------------------------------------------------------------------
(* CircularBuffer (App.tsx): the fixed-size ring the UI keeps chart points *)
(* in.  Items are small numbers; slot indices run from 0.                  *)

Items == {1, 2, 3}

\* push(data)
CBPush(item) ==
    /\ Len(cbPushed) < MaxPushes
    /\ cbBuffer' = [cbBuffer EXCEPT ![cbHead] = item]
    /\ cbHead' = (cbHead + 1) % Capacity
    /\ cbSize' = IF cbSize < Capacity THEN cbSize + 1 ELSE cbSize
    /\ cbPushed' = Append(cbPushed, item)
    /\ UNCHANGED <<seqVars, panicked, concVars, dpc, decVars, connVars, uiVars>>

\* clear()
CBClear ==
    /\ cbHead' = 0
    /\ cbSize' = 0
    /\ cbPushed' = <<>>
    /\ UNCHANGED cbBuffer
    /\ UNCHANGED <<seqVars, panicked, concVars, dpc, decVars, connVars, uiVars>>

\* toArray() reading from slot 0 whatever the fill
toArrayFromZero ==
    IF cbSize = 0 THEN <<>>
    ELSE [i \in 1..cbSize |-> cbBuffer[(i - 1) % Capacity]]

\* toArray()
toArray ==
    IF cbSize = 0 THEN <<>>
    ELSE LET sourceIndex == IF cbSize < Capacity THEN 0 ELSE cbHead
         IN  [i \in 1..cbSize |-> cbBuffer[(sourceIndex + i - 1) % Capacity]]

\* length()
length == cbSize

NextCB ==
    \/ \E item \in Items : CBPush(item)
    \/ CBClear

SpecCB == Init /\ [][NextCB]_vars

----------------------------------------------------------------------------
(* The UI (App.tsx): its isConnected and isTestMode state, the Connect,    *)
(* Disconnect and test-mode buttons, and the polling interval.  A click    *)
(* calls the backend; the state setters run when the promise of the call   *)
(* resolves, which is a later step, and the buttons stay as rendered until *)
(* then.  The chart buffers the handlers clear are those of SpecCB.        *)

MaxPending == 2

Remove(s, i) == SubSeq(s, 1, i - 1) \o SubSeq(s, i + 1, Len(s))

\* ecgBuffer.clear() and its siblings
ClearBuffers ==
    /\ cbHead' = 0
    /\ cbSize' = 0
    /\ cbPushed' = <<>>
    /\ UNCHANGED cbBuffer

\* connectToSerialPort up to its await: the Connect button is enabled and
\* ConnectToSerialPort is called
UIClickConnect(openOK) ==
    /\ ~uiConnected /\ ~isTestMode
    /\ Len(uiPending) < MaxPending
    /\ ConnectCall(openOK)
    /\ uiPending' = Append(uiPending, [op |-> "connect", ok |-> result'.ok])
    /\ UNCHANGED <<uiConnected, isTestMode, uiErrors, cbVars, concVars, dpc, decVars,
                   connVars>>

\* disconnectFromSerialPort up to its await
UIClickDisconnect(closeOK) ==
    /\ uiConnected
    /\ Len(uiPending) < MaxPending
    /\ DisconnectCall(closeOK)
    /\ uiPending' = Append(uiPending, [op |-> "disconnect", ok |-> result'.ok])
    /\ UNCHANGED <<uiConnected, isTestMode, uiErrors, cbVars, concVars, dpc, decVars,
                   connVars>>

\* the rest of connectToSerialPort / disconnectFromSerialPort, once the
\* promise of call i has resolved
UIResolve(i) ==
    /\ i \in 1..Len(uiPending)
    /\ uiPending' = Remove(uiPending, i)
    /\ IF uiPending[i].op = "connect"
       THEN IF uiPending[i].ok
            THEN uiConnected' = TRUE /\ ClearBuffers
            ELSE UNCHANGED <<uiConnected, cbVars>>
       ELSE uiConnected' = FALSE /\ UNCHANGED cbVars
    /\ UNCHANGED <<isTestMode, uiErrors, seqVars, panicked, concVars, dpc, decVars,
                   connVars>>

\* startTestMode
UIStartTestMode ==
    /\ ~isTestMode /\ ~uiConnected
    /\ isTestMode' = TRUE
    /\ ClearBuffers
    /\ UNCHANGED <<uiConnected, uiPending, uiErrors, seqVars, panicked, concVars, dpc,
                   decVars, connVars>>

\* stopTestMode
UIStopTestMode ==
    /\ isTestMode
    /\ isTestMode' = FALSE
    /\ UNCHANGED <<uiConnected, uiPending, uiErrors, cbVars, seqVars, panicked, concVars,
                   dpc, decVars, connVars>>

UIChunks == {Rec123, Rec12}

\* what one run of the interval callback leaves alone; a rejected call is
\* caught and logged (console.error), a resolved one without a length is
\* dropped
UIPollDone ==
    /\ uiErrors' = IF result'.ok THEN uiErrors ELSE uiErrors \cup {result'.err}
    /\ UNCHANGED <<variant, panicked, openPorts, session, acc>>
    /\ UNCHANGED <<uiConnected, isTestMode, uiPending>>
    /\ UNCHANGED <<concVars, dpc, decVars, connVars, cbVars>>

\* the interval callback in real mode when the device has sent chunk
UIPollData(chunk) ==
    /\ uiConnected
    /\ ~panicked
    /\ ReadData(chunk)
    /\ UIPollDone

\* the interval callback in real mode: one ReadSensorData call
UIPoll ==
    \/ /\ uiConnected
       /\ ~panicked
       /\ \/ ReadNotConnected
          \/ \E kind \in {"timeout", "io"} : ReadFailed(kind)
          \/ ReadNoData
       /\ UIPollDone
    \/ \E chunk \in UIChunks : UIPollData(chunk)

NextUI ==
    \/ \E openOK \in BOOLEAN : UIClickConnect(openOK)
    \/ \E closeOK \in BOOLEAN : UIClickDisconnect(closeOK)
    \/ \E i \in 1..MaxPending : UIResolve(i)
    \/ UIStartTestMode
    \/ UIStopTestMode
    \/ UIPoll

SpecUI == Init /\ [][NextUI]_vars

\* The steps of UIPollData(Rec123), told by its guard and by what it does to
\* rx and nReads: no other step of NextUI appends Rec123 to rx.
UIPollsRecord ==
    /\ uiConnected /\ ~panicked
    /\ isConnected /\ serialPort # Nil
    /\ nReads < MaxReads
    /\ rx' = rx \o Rec123
    /\ nReads' = nReads + 1

\* The interval keeps firing and the device sends a complete record again.
SpecUILive == Init /\ [][NextUI]_vars /\ WF_<<rx, nReads>>(UIPollsRecord)

----------------------------------------------------------------------------
(* ConnectToSerialPort calls in flight together.  The host runs every bound *)
(* call on a goroutine of its own and App has no lock, so the statements of *)
(* two calls interleave: the isConnected test, serial.Open, and the three   *)
(* assignments that publish the handle.                                     *)

\* the handle serial.Open returns to call c, distinct from every other one
HandleOf(c) == MaxSessions + c

ConnFrame ==
    UNCHANGED <<variant, panicked, session, nReads, rx, polled, acc,
                concVars, dpc, decVars, uiVars, cbVars>>

\* a call of ConnectToSerialPort arrives
ConnCall(c) ==
    /\ cpc[c] = "idle"
    /\ ~panicked
    /\ cpc' = [cpc EXCEPT ![c] = "check"]
    /\ UNCHANGED <<isConnected, serialPort, dataBuffer, openPorts, result, cport>>
    /\ ConnFrame

\* if a.isConnected { return "Already connected to a port" }
ConnCheck(c) ==
    /\ cpc[c] = "check"
    /\ IF isConnected
       THEN /\ result' = Returned("connect", Failure("already"), "none")
            /\ cpc' = [cpc EXCEPT ![c] = "done"]
       ELSE /\ cpc' = [cpc EXCEPT ![c] = "open"]
            /\ UNCHANGED result
    /\ UNCHANGED <<isConnected, serialPort, dataBuffer, openPorts, cport>>
    /\ ConnFrame

\* port, err := serial.Open(portName, mode)
ConnOpen(c, openOK) ==
    /\ cpc[c] = "open"
    /\ IF openOK
       THEN /\ cport' = [cport EXCEPT ![c] = HandleOf(c)]
            /\ openPorts' = openPorts \cup {HandleOf(c)}
            /\ cpc' = [cpc EXCEPT ![c] = "setPort"]
            /\ UNCHANGED result
       ELSE /\ result' = Returned("connect", Failure("open"), "none")
            /\ cpc' = [cpc EXCEPT ![c] = "done"]
            /\ UNCHANGED <<cport, openPorts>>
    /\ UNCHANGED <<isConnected, serialPort, dataBuffer>>
    /\ ConnFrame

\* a.serialPort = port
ConnSetPort(c) ==
    /\ cpc[c] = "setPort"
    /\ serialPort' = cport[c]
    /\ cpc' = [cpc EXCEPT ![c] = "setFlag"]
    /\ UNCHANGED <<isConnected, dataBuffer, openPorts, result, cport>>
    /\ ConnFrame

\* a.isConnected = true
ConnSetFlag(c) ==
    /\ cpc[c] = "setFlag"
    /\ isConnected' = TRUE
    /\ cpc' = [cpc EXCEPT ![c] = "reset"]
    /\ UNCHANGED <<serialPort, dataBuffer, openPorts, result, cport>>
    /\ ConnFrame

\* a.dataBuffer = make([]byte, 0), and the call returns Success
ConnResetBuffer(c) ==
    /\ cpc[c] = "reset"
    /\ dataBuffer' = <<>>
    /\ result' = Returned("connect", Returns(<<>>), "none")
    /\ cpc' = [cpc EXCEPT ![c] = "done"]
    /\ UNCHANGED <<isConnected, serialPort, openPorts, cport>>
    /\ ConnFrame

NextConn ==
    \/ \E c \in Conns : ConnCall(c)
    \/ \E c \in Conns : ConnCheck(c)
    \/ \E c \in Conns, openOK \in BOOLEAN : ConnOpen(c, openOK)
    \/ \E c \in Conns : ConnSetPort(c)
    \/ \E c \in Conns : ConnSetFlag(c)
    \/ \E c \in Conns : ConnResetBuffer(c)
    \/ \E closeOK \in BOOLEAN : DisconnectFromSerialPort(closeOK)

SpecConn == Init /\ [][NextConn]_vars

----------------------------------------------------------------------------
(* Properties *)

Terminators == {LF, CR}

IsSuffix(s, t) == Len(s) <= Len(t) /\ SubSeq(t, Len(t) - Len(s) + 1, Len(t)) = s

session_state == <<isConnected, serialPort, dataBuffer, openPorts>>

\* C1: a ConnectToSerialPort call made while connected returns Success=false
\* and leaves the port handle, isConnected and dataBuffer as they were; no
\* port is opened.
C1_ConnectWhileConnected ==
    [][(isConnected /\ result'.op = "connect")
        => (~result'.ok /\ UNCHANGED session_state)]_vars

\* C1 witness: a connect was refused while a session with buffered bytes runs.
C1_Witness ==
    /\ result.op = "connect" /\ result.err = "already"
    /\ isConnected /\ serialPort # Nil /\ dataBuffer # <<>>

\* C2: a DisconnectFromSerialPort call made while disconnected returns
\* Success=false, makes no call on the nil handle and changes no state.
C2_DisconnectWhileDisconnected ==
    [][(~isConnected /\ result'.op = "disconnect")
        => (~result'.ok /\ ~panicked' /\ UNCHANGED session_state)]_vars

\* C2 witness: a disconnect was refused after a session had ended.
C2_Witness ==
    /\ result.op = "disconnect" /\ result.err = "noconn"
    /\ ~isConnected /\ ~panicked /\ session > 0

\* C3: when serial.Open fails, ConnectToSerialPort returns Success=false and
\* the App stays Disconnected with no handle and the same dataBuffer.
C3_OpenFailureNoMutation ==
    [][(result'.op = "connect" /\ result'.err = "open")
        => (~result'.ok /\ ~isConnected' /\ serialPort' = Nil
            /\ UNCHANGED session_state)]_vars

\* C3 witness: an open failed after an earlier session had been closed.
C3_Witness ==
    /\ result.op = "connect" /\ result.err = "open"
    /\ ~isConnected /\ session > 0

\* C4: after every successful connect and every successful disconnect
\* dataBuffer is empty, and every byte it holds was received in the
\* current session.
C4_NoLeakAcrossSessions ==
    /\ (result.op \in {"connect", "disconnect"} /\ result.ok) => dataBuffer = <<>>
    /\ IsSuffix(dataBuffer, acc)

\* C4 witness: a session that ended with an unterminated fragment buffered
\* has been disconnected.
C4_Witness ==
    /\ result.op = "disconnect" /\ result.ok
    /\ acc # <<>> /\ IndexAny(acc, Terminators) = 0 /\ Len(acc) < BufferCeiling

\* C5: isConnected and the port handle change only in a connect or
\* disconnect call that succeeds; no read does it, whatever its outcome.
C5_StateOnlyByConnectDisconnect ==
    [][(isConnected' # isConnected \/ serialPort' # serialPort)
        => (result'.op \in {"connect", "disconnect"} /\ result'.ok)]_vars

\* C5 witness: a read failed with a device error after an undecodable
\* record, and the App is still connected.
C5_Witness ==
    /\ result.op = "read" /\ result.err = "io"
    /\ rx # <<>> /\ polled = <<>>
    /\ isConnected /\ serialPort # Nil

\* C6: the samples the reads of a session returned are those one read of
\* the same bytes returns, however the bytes were cut into reads.
C6_BoundaryInsensitive ==
    (rx # <<>> /\ Len(rx) <= ReadBufSize) => polled = DecodeRead(variant, rx).samples

RECURSIVE ResultsInCallOrder(_)
ResultsInCallOrder(calls) ==
    IF calls = <<>> THEN <<>>
    ELSE returned[Head(calls)].samples \o ResultsInCallOrder(Tail(calls))

\* C7: once every call has returned, the results of the calls, taken in
\* call order, are the decoded samples in decode order.
C7_DeliveredInDecodeOrder ==
    (\A p \in Polls : pc[p] = "done") => ResultsInCallOrder(callOrder) = decoded

\* C8: of two consecutive ReadSensorData calls with no byte arriving before
\* the second, both succeed and the second returns no sample.
C8_SecondDrainEmpty ==
    [][(result.op = "read" /\ result'.op = "read" /\ result'.rd \in {"zero", "timeout"})
        => (result.ok /\ result'.ok /\ result'.samples = <<>>)]_vars

\* C9: a poll made while disconnected, and a poll whose read times out with
\* zero bytes, return an empty result and no error, and change no state.
C9_EmptyPollNoError ==
    [][(result'.op = "read" /\ (~isConnected \/ result'.rd \in {"zero", "timeout"}))
        => (result'.ok /\ result'.samples = <<>> /\ UNCHANGED session_state)]_vars

\* C10: dataBuffer never holds more than the ceiling plus one read, and
\* never holds the ceiling or more without a terminator in it.
C10_RawBufferBounded ==
    /\ Len(dataBuffer) <= BufferCeiling + ReadBufSize
    /\ IndexAny(dataBuffer, Terminators) = 0 => Len(dataBuffer) < BufferCeiling

\* C10 witness: terminator-free input passed the ceiling and the buffer
\* was reset.
C10_Witness ==
    /\ result.op = "acquire"
    /\ Len(acc) >= BufferCeiling /\ IndexAny(acc, Terminators) = 0
    /\ dataBuffer = <<>>

\* C11: for every triple of signed 32-bit integers, each of its three
\* encodings (hex CSV with 0x fields, decimal CSV, 12 little-endian bytes)
\* handed to the decoding of a read yields one Sample with exactly the
\* values of the triple.
C11_RoundTrip ==
    \A t \in Triples, e \in Encodings :
        (fn = "DecodeRead" /\ input = Encode(e, t)) => output = Success(t)

NumFields(s) == Len(Split(TrimSpace(s), COMMA))

Rejected(r) == ~r.ok /\ r.samples = <<>>

\* C12: a text record with fewer than three comma-delimited fields is
\* rejected as a whole, with no Sample, whatever its fields hold.
C12_TooFewFieldsRejected ==
    /\ (fn = "parseTextFormat" /\ NumFields(input) < 3) => Rejected(output)
    /\ (fn = "DecodeRead" /\ Contains(input, COMMA) /\ NumFields(input) < 3)
            => Rejected(output)

\* C12 witness: the two-field record "0x1,0x2", whose fields are both valid,
\* was handed to parseTextFormat and rejected.
C12_Witness ==
    /\ fn = "parseTextFormat" /\ input = TxtTwoHex /\ variant = "hex"
    /\ parseField(variant, <<CH_0, CH_x, CH_1>>).ok
    /\ Rejected(output)

\* C13: if any one of the first three fields of a text record fails to
\* parse, the whole record fails and no Sample is produced, whether or not
\* the other two fields are valid.
C13_BadFieldFailsRecord ==
    (/\ fn = "parseTextFormat"
     /\ NumFields(input) >= 3
     /\ \E i \in 1..3 : ~parseField(variant, Split(TrimSpace(input), COMMA)[i]).ok)
        => Rejected(output)

\* C13 witness: "-5,10," with its empty third field was decoded by the
\* decimal build, where the first two fields are valid, and rejected.
C13_Witness ==
    /\ fn = "parseTextFormat" /\ input = TxtEmptyThird /\ variant = "dec"
    /\ parseField(variant, FldMinus).ok
    /\ Rejected(output)

InInt32(val) == val[1] \in -32768..32767 /\ val[2] \in 0..(W16 - 1)

\* C14: every channel value of every Sample a decode path produces lies in
\* the signed 32-bit range.
C14_SignedRange ==
    fn \in {"DecodeRead", "parseTextFormat", "parseBinaryFormat", "tryParseTextFormat"}
        => \A i \in 1..Len(output.samples) :
               \A k \in 1..3 : InInt32(output.samples[i][k])

\* the hex pattern of a field: 0x or 0X followed by 1 to 8 hex digits
HexPattern(f) ==
    /\ HasPrefix0x(f)
    /\ Len(f) \in 3..10
    /\ \A i \in 3..Len(f) : DigitVal(f[i], 16) >= 0

\* the 32-bit pattern of a channel value
Pattern(val) == <<val[1] % W16, val[2]>>

SamePatterns(smps1, smps2) ==
    /\ Len(smps1) = Len(smps2)
    /\ \A i \in 1..Len(smps1) : \A k \in 1..3 : Pattern(smps1[i][k]) = Pattern(smps2[i][k])

TrimmedField(s, i) == TrimSpace(Split(TrimSpace(s), COMMA)[i])

\* what a record of three or more fields decodes to when the fields choose
\* the text encoding: hex when the first three match the hex pattern,
\* base 10 otherwise
DispatchedDecode(s) ==
    LET isHex == \A i \in 1..3 : HexPattern(TrimmedField(s, i))
        val(i) == IF isHex
                  THEN ParseUint32(SubSeq(TrimmedField(s, i), 3, Len(TrimmedField(s, i))), 16)
                  ELSE ParseInt32(TrimmedField(s, i))
    IN  IF \A i \in 1..3 : val(i).ok
        THEN Success(<< <<val(1).q, val(1).r>>, <<val(2).q, val(2).r>>, <<val(3).q, val(3).r>> >>)
        ELSE Failure("parse")

\* C17: a record with at least two commas is decoded as hex CSV exactly
\* when its first three trimmed fields match the hex pattern, and
\* otherwise as decimal CSV in base 10; so "10,20,30" gives (10, 20, 30)
\* and "0x10,0x20,0x30" gives (16, 32, 48).
C17_DispatchByFieldPattern ==
    (fn = "DecodeRead" /\ NumFields(input) >= 3)
        => /\ output.ok = DispatchedDecode(input).ok
           /\ SamePatterns(output.samples, DispatchedDecode(input).samples)

\* C18: a field is accepted on the hex path only if, after trimming, it is
\* 0x or 0X followed by 1 to 8 hex digits.
C18_HexFieldPattern ==
    (fn = "parseHexUint32" /\ output.ok) => HexPattern(TrimSpace(input))

\* the little-endian 32-bit word at data[i..i+3], as a pattern
LEPattern(data, i) == <<data[i + 2] + 256 * data[i + 3], data[i] + 256 * data[i + 1]>>

\* C19: a read without a separator that is at least 12 bytes long decodes
\* to the three little-endian words of its first 12 bytes, whatever
\* follows them; a shorter one fails and yields no Sample.
C19_BinaryFromFirstTwelve ==
    (fn = "DecodeRead" /\ ~Contains(input, COMMA))
        => IF Len(input) >= BinaryRecordLen
           THEN /\ output.ok /\ Len(output.samples) = 1
                /\ \A k \in 1..3 :
                       Pattern(output.samples[1][k]) = LEPattern(input, 4 * k - 3)
           ELSE Rejected(output)

\* C19 witness: a read of 15 separator-free bytes was decoded to the words
\* of its first 12.
C19_Witness ==
    /\ fn = "DecodeRead" /\ input = BinLong
    /\ output = Success(<< <<0, 1>>, <<0, 2>>, <<0, 3>> >>)

IsText(s) == \A i \in 1..Len(s) : s[i] \in 32..126 \/ IsSpace(s[i])

\* the segments of s that end in a terminator, in stream order
RECURSIVE CompleteSegments(_)
CompleteSegments(s) ==
    LET i == IndexAny(s, Terminators)
    IN  IF i = 0 THEN <<>>
        ELSE <<SubSeq(s, 1, i - 1)>> \o CompleteSegments(SubSeq(s, i + 1, Len(s)))

\* the Samples of the segments that are non-empty after trimming
RECURSIVE SamplesOfSegments(_, _)
SamplesOfSegments(v, segs) ==
    IF segs = <<>> THEN <<>>
    ELSE (IF TrimSpace(Head(segs)) = <<>> THEN <<>>
          ELSE parseTextFormat(v, TrimSpace(Head(segs))).samples)
         \o SamplesOfSegments(v, Tail(segs))

\* C20: of text that holds terminators, every segment before the last
\* terminator that is non-empty after trimming is decoded, once and in
\* order, within the step that received it; a segment that is empty after
\* trimming gives neither a Sample nor a decode failure.
C20_EverySegmentForwarded ==
    /\ (fn = "DecodeRead" /\ IsText(input) /\ IndexAny(input, Terminators) # 0)
            => output.samples = SamplesOfSegments(variant, CompleteSegments(input))
    /\ (fn = "tryParseTextFormat" /\ IsText(input) /\ CompleteSegments(input) # <<>>
            /\ TrimSpace(Head(CompleteSegments(input))) = <<>>)
            => output.err \notin {"fields", "parse"}

\* the calls that are inside a method of the port handle
InsideHandle ==
    {<<"read", p>> : p \in {q \in Polls : pc[q] = "inRead"}}
        \cup (IF dpc = "inClose" THEN {<<"close", 0>>} ELSE {})

\* C15: at most one operation is inside a call on the serial port handle
\* at any time, whatever the interleaving of connect, disconnect and polls.
C15_HandleExclusive == Cardinality(InsideHandle) <= 1

\* C16: no interleaving ends in a method call on a nil port handle: a read
\* that has passed its connected check never calls the handle after a
\* concurrent disconnect has set it to nil.
C16_NoCallOnNilHandle == ~panicked

\* C21: after tryParseTextFormat has taken a line, dataBuffer holds exactly
\* the bytes that followed the terminator of that line, unchanged and in
\* order; and a buffer below the ceiling without a terminator is left as it
\* was.
C21_TailRetained ==
    fn = "tryParseTextFormat"
        => LET endIdx == IndexAny(input, Terminators)
           IN  /\ endIdx # 0 => dataBuffer = SubSeq(input, endIdx + 1, Len(input))
               /\ (endIdx = 0 /\ Len(input) < BufferCeiling)
                      => (dataBuffer = input /\ output.samples = <<>>)

\* C21 witness: a buffer holding a record and the head of the next one was
\* processed, and the head "4,5" is what the buffer holds.
C21_Witness ==
    /\ fn = "tryParseTextFormat" /\ input = TxtRecordAndHead
    /\ Len(output.samples) = 1
    /\ dataBuffer = <<52, COMMA, 53>>

\* C22: when the buffer has passed the ceiling with no terminator in it,
\* its contents are discarded without being decoded: the call yields no
\* Sample.
C22_OverflowNotDecoded ==
    (fn = "tryParseTextFormat" /\ IndexAny(input, Terminators) = 0
        /\ Len(input) > BufferCeiling)
        => (output.samples = <<>> /\ dataBuffer = <<>>)

C25_FlagIffHandle == isConnected <=> serialPort # Nil

\* C25 witness: the last session the model allows was opened and closed
\* again.
C25_Witness ==
    /\ result.op = "disconnect" /\ result.ok
    /\ session = MaxSessions
    /\ ~isConnected /\ serialPort = Nil

\* C26: when serialPort.Close fails, DisconnectFromSerialPort returns
\* Success=false and the session is as before: still connected, the handle
\* kept, dataBuffer not cleared.
C26_CloseFailureKeepsSession ==
    [][(result'.op = "disconnect" /\ result'.err = "close")
        => (/\ ~result'.ok
            /\ isConnected' /\ serialPort' # Nil
            /\ UNCHANGED session_state)]_vars

\* C26 witness: a close failed in a session that has bytes buffered.
C26_Witness ==
    /\ result.op = "disconnect" /\ result.err = "close"
    /\ isConnected /\ serialPort # Nil /\ dataBuffer # <<>>

Min(a, b) == IF a <= b THEN a ELSE b

\* the last n items of s
LastItems(s, n) == SubSeq(s, Len(s) - n + 1, Len(s))

\* C30: after any sequence of push and clear calls, length() is min(k, C)
\* for k pushes since the last clear, toArray() is the last min(k, C) of
\* those items in push order, and length() never exceeds C.
C30_RingHoldsLastItems ==
    /\ length = Min(Len(cbPushed), Capacity)
    /\ toArray = LastItems(cbPushed, Min(Len(cbPushed), Capacity))
    /\ length <= Capacity

\* C30 witness: more items than the capacity were pushed since the last
\* clear and the ring has wrapped, so the oldest item is not in slot 0.
C30_Witness ==
    /\ Len(cbPushed) > Capacity
    /\ cbHead # 0
    /\ Len(toArray) = Capacity
    /\ toArray[1] = cbBuffer[cbHead]

\* C28: once the connect and disconnect requests of the UI have completed,
\* the UI's isConnected flag equals the backend's connection state.
C28_UIFlagMatchesBackend == uiPending = <<>> => uiConnected = isConnected

\* C29: in the UI, test mode and a live connection exclude each other:
\* isTestMode and isConnected are never both true.
C29_TestModeExcludesConnection == ~(isTestMode /\ uiConnected)

\* a poll has just failed with a read error that is not a timeout, in a
\* session that is connected and polled
IoErrorCaught ==
    /\ result.op = "read" /\ result.rd = "io"
    /\ isConnected /\ uiConnected
    /\ nReads < MaxReads

\* a poll has just returned a decoded record to its caller
RecordDelivered == result.op = "read" /\ result.ok /\ result.samples # <<>>

ConnectsReturned == \A c \in Conns : cpc[c] \in {"idle", "done"}

\* C27: under concurrent ConnectToSerialPort calls at most one port handle
\* is ever open, and once the calls have returned every open handle is the
\* one the App holds: none was overwritten and left open.
C27_OneHandleOwned ==
    /\ Cardinality(openPorts) <= 1
    /\ ConnectsReturned => openPorts \subseteq {serialPort}

====
